---- MODULE Spec2Model ----
(***************************************************************************)
(* Nexus launch-readiness simulator (src/app.py): the task graph builder,  *)
(* the constraint applicator, the critical-path scheduler, the confidence  *)
(* scorer and the script's simulation run.                                 *)
(*                                                                         *)
(* Python lists and sets are objects: a task's "deps" is a reference into  *)
(* a heap (Ref -> set of task names), so that a copy (list(deps),          *)
(* set(deps)) and a shared reference are different things in the model.    *)
(***************************************************************************)
EXTENDS Integers, Sequences, FiniteSets, TLC

VARIABLES cpm, heap, pipe, calls, alloc, sim

vars == <<cpm, heap, pipe, calls, alloc, sim>>

None == "None"

(***************************************************************************)
(* Bounds of the generic task mappings handed to compute_cpm.              *)
(***************************************************************************)
MaxDeps == 2
MaxDur == 3

\* Bound on the calls of one run of the pipeline specification.
MaxCalls == 2

GenericNames == {"A", "B", "C", "D"}

(***************************************************************************)
(* sorted() on task names: Python compares str by code point.  NameOrder   *)
(* lists every task name of the model in that order.                       *)
(***************************************************************************)
NameOrder ==
  << "A", "B", "C", "D", "Factory Build", "Liquid Glass Display", "M5 Chip",
     "M5-optimized iPadOS", "Neural Accelerator", "Pencil Pro Calibration",
     "R1 Sensor", "Ship", "Thermal System", "Validation & Launch Readiness",
     "VisionOS Spatial UX", "macOS M5 Optimization" >>

Rank(name) == CHOOSE i \in 1..Len(NameOrder) : NameOrder[i] = name

RECURSIVE SortedDescending(_)
SortedDescending(S) ==
  IF S = {} THEN << >>
  ELSE LET m == CHOOSE x \in S : \A y \in S : Rank(y) <= Rank(x)
       IN  <<m>> \o SortedDescending(S \ {m})

\* sorted(ready)
RECURSIVE Sorted(_)
Sorted(S) ==
  IF S = {} THEN << >>
  ELSE LET m == CHOOSE x \in S : \A y \in S : Rank(x) <= Rank(y)
       IN  <<m>> \o Sorted(S \ {m})

Range(s) == {s[i] : i \in 1..Len(s)}

RECURSIVE SetMax(_)
SetMax(S) ==
  LET x == CHOOSE y \in S : TRUE
  IN  IF S = {x} THEN x
      ELSE LET r == SetMax(S \ {x}) IN IF x > r THEN x ELSE r

RECURSIVE SetMin(_)
SetMin(S) ==
  LET x == CHOOSE y \in S : TRUE
  IN  IF S = {x} THEN x
      ELSE LET r == SetMin(S \ {x}) IN IF x < r THEN x ELSE r

MinDefault0(S) == IF S = {} THEN 0 ELSE SetMin(S)

\* max(..., default=0)
MaxDefault0(S) == IF S = {} THEN 0 ELSE SetMax(S)

(***************************************************************************)
(* compute_cpm.  c is the call's frame: c.heap the objects it can reach,   *)
(* c.tasks the mapping it was handed, the rest its locals.                 *)
(***************************************************************************)
PendingRefShared(meta, task) == meta.deps

\* set(meta["deps"]): a new set object per task
PendingRef(meta, task) == <<"rem", task>>

CpmEnter(h, tasks) ==
  [ pc |-> "start", heap |-> h, tasks |-> tasks, remaining |-> << >>,
    ready |-> << >>, order |-> << >>, todo |-> << >>,
    earliest_start |-> << >>, earliest_finish |-> << >>,
    error |-> None, result |-> << >> ]

\* line 182-183
CpmStart(c) ==
  LET rem == [t \in DOMAIN c.tasks |-> PendingRef(c.tasks[t], t)]
      refs == {rem[t] : t \in DOMAIN c.tasks}
      src(r) == c.tasks[CHOOSE t \in DOMAIN c.tasks : rem[t] = r].deps
  IN  [c EXCEPT !.pc = "while",
                !.remaining = rem,
                !.heap = [r \in DOMAIN c.heap \cup refs |->
                            IF r \in refs THEN c.heap[src(r)] ELSE c.heap[r]],
                !.order = << >>]

ReadyIgnoringSelf(h, remaining) ==
  {t \in DOMAIN remaining : h[remaining[t]] \subseteq {t}}

\* line 186
Ready(h, remaining) == {t \in DOMAIN remaining : h[remaining[t]] = {}}

ReadyOrderDescending(ready) == SortedDescending(ready)

\* line 189: the iteration order of the for loop
ReadyOrder(ready) == Sorted(ready)

\* line 185-189: the loop test, the ready set, the cycle error
CpmWhile(c) ==
  IF DOMAIN c.remaining = {}
  THEN [c EXCEPT !.pc = "forward", !.todo = c.order]
  ELSE LET ready == Ready(c.heap, c.remaining)
       IN  IF ready = {}
           THEN [c EXCEPT !.pc = "raise", !.error = "ValueError"]
           ELSE [c EXCEPT !.pc = "for", !.ready = ReadyOrder(ready)]

\* line 189-193: one iteration of the for loop
CpmFor(c) ==
  IF c.ready = << >>
  THEN [c EXCEPT !.pc = "while"]
  ELSE LET task == Head(c.ready)
           rem == [t \in DOMAIN c.remaining \ {task} |-> c.remaining[t]]
           live == {rem[t] : t \in DOMAIN rem}
       IN  [c EXCEPT !.order = Append(c.order, task),
                     !.remaining = rem,
                     !.heap = [r \in DOMAIN c.heap |->
                                 IF r \in live THEN c.heap[r] \ {task}
                                 ELSE c.heap[r]],
                     !.ready = Tail(c.ready)]

StartOfMin(c, deps) == MinDefault0({c.earliest_finish[d] : d \in deps})

\* line 199
StartOf(c, deps) == MaxDefault0({c.earliest_finish[d] : d \in deps})

\* line 197-204: one iteration of the forward pass, then the return
CpmForward(c) ==
  IF c.todo = << >>
  THEN [c EXCEPT !.pc = "return",
                 !.result = <<c.earliest_start, c.earliest_finish>>]
  ELSE LET task == Head(c.todo)
           deps == c.heap[c.tasks[task].deps]
       IN  IF ~(deps \subseteq DOMAIN c.earliest_finish)
           THEN [c EXCEPT !.pc = "raise", !.error = "KeyError"]
           ELSE LET start == StartOf(c, deps)
                    finish == start + c.tasks[task].duration
                IN  [c EXCEPT
                       !.earliest_start = (task :> start) @@ c.earliest_start,
                       !.earliest_finish = (task :> finish) @@ c.earliest_finish,
                       !.todo = Tail(c.todo)]

CpmStep(c) ==
  CASE c.pc = "start" -> CpmStart(c)
    [] c.pc = "while" -> CpmWhile(c)
    [] c.pc = "for" -> CpmFor(c)
    [] c.pc = "forward" -> CpmForward(c)
    [] OTHER -> c

CpmEnded(c) == c.pc \in {"return", "raise"}

RECURSIVE CpmRun(_)
CpmRun(c) == IF CpmEnded(c) THEN c ELSE CpmRun(CpmStep(c))

\* compute_cpm(tasks) as one call
ComputeCpm(h, tasks) == CpmRun(CpmEnter(h, tasks))

(***************************************************************************)
(* Static configuration (module globals).                                  *)
(***************************************************************************)
Products == <<"MacBook Pro", "iPad Pro", "Vision Pro">>

ProductSet == Range(Products)

\* SHARED_TASKS
SHARED_TASKS ==
  << [name |-> "M5 Chip", duration |-> 30, deps |-> {}, type |-> "component"],
     [name |-> "Neural Accelerator", duration |-> 25, deps |-> {}, type |-> "component"],
     [name |-> "Liquid Glass Display", duration |-> 28, deps |-> {}, type |-> "component"] >>

\* PRODUCT_CONFIGS[product]["unique_tasks"]
UniqueTasks(product) ==
  CASE product = "MacBook Pro" ->
         << [name |-> "Thermal System", duration |-> 18, deps |-> {"M5 Chip"}, type |-> "component"],
            [name |-> "macOS M5 Optimization", duration |-> 24, deps |-> {"M5 Chip"}, type |-> "software"] >>
    [] product = "iPad Pro" ->
         << [name |-> "M5-optimized iPadOS", duration |-> 20, deps |-> {"M5 Chip"}, type |-> "software"],
            [name |-> "Pencil Pro Calibration", duration |-> 12, deps |-> {"Liquid Glass Display"}, type |-> "component"] >>
    [] product = "Vision Pro" ->
         << [name |-> "R1 Sensor", duration |-> 22, deps |-> {}, type |-> "component"],
            [name |-> "VisionOS Spatial UX", duration |-> 26, deps |-> {"M5 Chip", "R1 Sensor"}, type |-> "software"] >>

ConfigTasks ==
  Range(SHARED_TASKS) \cup UNION {Range(UniqueTasks(p)) : p \in ProductSet}

\* the deps lists of the configuration, as objects of the heap
ConfigHeap == [r \in {<<"cfg", e.name>> : e \in ConfigTasks} |->
                 (CHOOSE e \in ConfigTasks : e.name = r[2]).deps]

(***************************************************************************)
(* Arithmetic.  The code divides in binary floating point and takes        *)
(* math.ceil of the quotient; for the integer operands of the sliders'     *)
(* ranges the quotient's rounding error never crosses an integer, so the   *)
(* ceiling is that of the exact quotient.                                  *)
(***************************************************************************)
Max2(a, b) == IF a >= b THEN a ELSE b

Min2(a, b) == IF a <= b THEN a ELSE b

\* math.ceil(a / b) for a >= 0, b > 0
CeilDiv(a, b) == (a + b - 1) \div b

BaseDelayOfYield(yield) == CeilDiv(yield * 28, 70)

\* line 103-104
BaseDelay(yield) == CeilDiv((70 - yield) * 28, 70)

\* compute_allocation_delays
ComputeAllocationDelays(yield) ==
  IF yield >= 70
  THEN [product \in ProductSet |-> 0]
  ELSE ("MacBook Pro" :> 0) @@ ("iPad Pro" :> BaseDelay(yield))
         @@ ("Vision Pro" :> BaseDelay(yield) + 7)

(***************************************************************************)
(* build_product_tasks.  Returns the heap with the new lists, the mapping  *)
(* and the error raised, if any.                                           *)
(***************************************************************************)
\* list(deps): a new list object holding the names of the configured one
NewList(name) == <<"base", name>>

TaskEntry(e) == [duration |-> e.duration, deps |-> NewList(e.name), type |-> e.type]

\* line 128
ComponentTasks(tasks) == {n \in DOMAIN tasks : tasks[n].type = "component"}

SoftwareTasksMisspelt(tasks) == {n \in DOMAIN tasks : tasks[n].type = "Software"}

\* line 129
SoftwareTasks(tasks) == {n \in DOMAIN tasks : tasks[n].type = "software"}

BuildProductTasks(h, product_name) ==
  IF product_name \notin ProductSet
  THEN [error |-> "KeyError", heap |-> h, tasks |-> << >>]
  ELSE
    LET entries == Range(SHARED_TASKS) \cup Range(UniqueTasks(product_name))
        entry(n) == CHOOSE e \in entries : e.name = n
        tasks == [n \in {e.name : e \in entries} |-> TaskEntry(entry(n))]
        synth ==
          ("Factory Build" :>
             [duration |-> 14, deps |-> NewList("Factory Build"), type |-> "factory"])
          @@ ("Validation & Launch Readiness" :>
             [duration |-> 10, deps |-> NewList("Validation & Launch Readiness"),
              type |-> "validation"])
          @@ ("Ship" :> [duration |-> 0, deps |-> NewList("Ship"), type |-> "milestone"])
        lists ==
          [r \in {NewList(n) : n \in DOMAIN tasks} |-> h[<<"cfg", r[2]>>]]
          @@ (NewList("Factory Build") :> ComponentTasks(tasks))
          @@ (NewList("Validation & Launch Readiness") :>
                {"Factory Build"} \cup SoftwareTasks(tasks))
          @@ (NewList("Ship") :> {"Validation & Launch Readiness"})
    IN  [error |-> None, heap |-> lists @@ h, tasks |-> synth @@ tasks]

(***************************************************************************)
(* apply_constraints.  updated[task] is {**meta, "duration": ...}: a new   *)
(* dict per task whose "deps" is the same list object as meta's.           *)
(***************************************************************************)
\* line 158
BugDelay(bug_count) == CeilDiv(bug_count, 12)

\* line 159
NaDelay(throughput) == CeilDiv(Max2(0, 90 - throughput), 10) * 2

FactoryDurationFloor(duration, throughput) ==
  (duration * 100) \div Max2(1, throughput)

\* line 157, 165: math.ceil(duration * (100 / max(1, throughput)))
FactoryDuration(duration, throughput) ==
  CeilDiv(duration * 100, Max2(1, throughput))

\* line 171: allocation_delays.get(product_name, 0)
AllocationDelayOf(allocation_delays, product_name) ==
  IF product_name \in DOMAIN allocation_delays
  THEN allocation_delays[product_name] ELSE 0

AdjustedDuration(task_name, meta, product_name, yield, throughput, bug) ==
  LET d1 == IF meta.type = "factory"
            THEN FactoryDuration(meta.duration, throughput) ELSE meta.duration
      d2 == IF meta.type = "software" THEN d1 + BugDelay(bug) ELSE d1
      d3 == IF task_name = "Neural Accelerator" THEN d2 + NaDelay(throughput) ELSE d2
      d4 == IF task_name = "M5 Chip"
            THEN d3 + AllocationDelayOf(ComputeAllocationDelays(yield), product_name)
            ELSE d3
  IN  Max2(0, d4)

ApplyConstraints(h, tasks, product_name, yield, throughput, bug) ==
  [ heap |-> h,
    updated |-> [n \in DOMAIN tasks |->
                   [tasks[n] EXCEPT !.duration =
                      AdjustedDuration(n, tasks[n], product_name, yield, throughput, bug)]],
    allocation_delays |-> ComputeAllocationDelays(yield),
    na_delay |-> NaDelay(throughput) ]

(***************************************************************************)
(* build_schedule.  Dates are kept as day offsets from start_date.  What   *)
(* outlives the call is the returned tuple and the module globals: the     *)
(* heap handed on holds the configuration's lists only.                    *)
(***************************************************************************)
Globals(h) == [r \in {x \in DOMAIN h : x[1] = "cfg"} |-> h[r]]

\* line 224-241
Assemble(tasks, product_name, applied, c) ==
  [ schedule |-> [n \in DOMAIN tasks |->
                    [product |-> product_name, start |-> c.result[1][n],
                     end |-> c.result[2][n], duration |-> tasks[n].duration,
                     type |-> tasks[n].type]],
    ship_days |-> c.result[2]["Ship"],
    allocation_delays |-> applied.allocation_delays,
    na_delay |-> applied.na_delay ]

BuildSchedule(h, product_name, yield, throughput, bug) ==
  LET built == BuildProductTasks(h, product_name)
  IN  IF built.error # None
      THEN [error |-> built.error, heap |-> Globals(built.heap), value |-> << >>]
      ELSE
        LET applied == ApplyConstraints(built.heap, built.tasks, product_name,
                                        yield, throughput, bug)
            c == ComputeCpm(applied.heap, applied.updated)
        IN  IF c.pc = "raise"
            THEN [error |-> c.error, heap |-> Globals(c.heap), value |-> << >>]
            ELSE [error |-> None, heap |-> Globals(c.heap),
                  value |-> <<Assemble(applied.updated, product_name, applied, c)>>]

(***************************************************************************)
(* The pipeline call by call.  pipe is the frame of the call in progress;  *)
(* heap holds the module globals' lists and, during a call, its locals.    *)
(***************************************************************************)
\* the sliders' ranges (line 272-274)
YieldRange == 40..100

ThroughputRange == 60..120

BugRange == 0..200

\* baseline_yield, baseline_throughput, baseline_bug_count
baseline_yield == 85

baseline_throughput == 100

baseline_bug_count == 25

YieldAnchors == {40, baseline_yield}

ThroughputAnchors == {60, baseline_throughput}

BugAnchors == {baseline_bug_count, 200}

\* constraint tuples: each input over its whole range, the other two at anchors
ConstraintTuples ==
  (YieldRange \X ThroughputAnchors \X BugAnchors)
    \cup (YieldAnchors \X ThroughputRange \X BugAnchors)
    \cup (YieldAnchors \X ThroughputAnchors \X BugRange)

AnchorTuples == YieldAnchors \X ThroughputAnchors \X BugAnchors

\* an identifier that is no key of PRODUCT_CONFIGS
UnknownProduct == "Apple Watch"

\* no run of the script made
SimIdle ==
  [ pc |-> "idle", i |-> 0, yield_percent |-> 0, throughput |-> 0,
    bug_count |-> 0, baseline_days |-> 0, baseline |-> << >>,
    current |-> << >>, logs |-> << >>, score |-> << >> ]

\* no call made
AllocIdle == [yields |-> << >>, delays |-> << >>]

PipeIdle ==
  [ pc |-> "idle", op |-> None, product_name |-> None, yield |-> 0,
    throughput |-> 0, bug |-> 0, base_tasks |-> << >>, tasks |-> << >>,
    allocation_delays |-> << >>, na_delay |-> 0, times |-> << >>,
    error |-> None, value |-> << >> ]

\* build_schedule(product_name, start_date, yield_percent, throughput, bug_count)
CallBuildSchedule ==
  /\ pipe.pc = "idle"
  /\ calls < MaxCalls
  /\ \E product_name \in ProductSet \cup {UnknownProduct} :
       \E in \in (IF product_name \in ProductSet
                  THEN ConstraintTuples ELSE AnchorTuples) :
         pipe' = [PipeIdle EXCEPT !.pc = "build", !.op = "build_schedule",
                                  !.product_name = product_name,
                                  !.yield = in[1], !.throughput = in[2],
                                  !.bug = in[3]]
  /\ calls' = calls + 1
  /\ UNCHANGED <<heap, cpm, alloc, sim>>

\* apply_constraints(tasks, product_name, ...) on the mapping of a product
CallApplyConstraints ==
  /\ pipe.pc = "idle"
  /\ calls < MaxCalls
  /\ \E built_for \in ProductSet :
       \E product_name \in ProductSet \cup {UnknownProduct} :
         \E in \in AnchorTuples :
           LET built == BuildProductTasks(heap, built_for)
           IN  /\ pipe' = [PipeIdle EXCEPT !.pc = "apply",
                                           !.op = "apply_constraints",
                                           !.product_name = product_name,
                                           !.yield = in[1],
                                           !.throughput = in[2],
                                           !.bug = in[3],
                                           !.base_tasks = built.tasks]
               /\ heap' = built.heap
  /\ calls' = calls + 1
  /\ UNCHANGED <<cpm, alloc, sim>>

\* line 214
BuildStep ==
  /\ pipe.pc = "build"
  /\ LET built == BuildProductTasks(heap, pipe.product_name)
     IN  /\ heap' = built.heap
         /\ pipe' = IF built.error # None
                    THEN [pipe EXCEPT !.pc = "done", !.error = built.error]
                    ELSE [pipe EXCEPT !.pc = "apply", !.base_tasks = built.tasks]
  /\ UNCHANGED <<cpm, calls, alloc, sim>>

\* line 215-221
ApplyStep ==
  /\ pipe.pc = "apply"
  /\ LET applied == ApplyConstraints(heap, pipe.base_tasks, pipe.product_name,
                                     pipe.yield, pipe.throughput, pipe.bug)
     IN  /\ heap' = applied.heap
         /\ pipe' = [pipe EXCEPT
                       !.pc = IF pipe.op = "apply_constraints" THEN "done" ELSE "cpm",
                       !.tasks = applied.updated,
                       !.allocation_delays = applied.allocation_delays,
                       !.na_delay = applied.na_delay,
                       !.value = IF pipe.op = "apply_constraints"
                                 THEN <<applied.updated, applied.allocation_delays,
                                        applied.na_delay>>
                                 ELSE << >>]
  /\ UNCHANGED <<cpm, calls, alloc, sim>>

\* line 222
CpmCallStep ==
  /\ pipe.pc = "cpm"
  /\ LET c == ComputeCpm(heap, pipe.tasks)
     IN  /\ heap' = c.heap
         /\ pipe' = IF c.pc = "raise"
                    THEN [pipe EXCEPT !.pc = "done", !.error = c.error]
                    ELSE [pipe EXCEPT !.pc = "assemble", !.times = c.result]
  /\ UNCHANGED <<cpm, calls, alloc, sim>>

\* line 224-241
AssembleStep ==
  /\ pipe.pc = "assemble"
  /\ pipe' = [pipe EXCEPT
                !.pc = "done",
                !.value = <<Assemble(pipe.tasks, pipe.product_name,
                                     [allocation_delays |-> pipe.allocation_delays,
                                      na_delay |-> pipe.na_delay],
                                     [result |-> pipe.times])>>]
  /\ UNCHANGED <<heap, cpm, calls, alloc, sim>>

\* the call has returned or raised: its locals are gone
Return ==
  /\ pipe.pc = "done"
  /\ pipe' = PipeIdle
  /\ heap' = Globals(heap)
  /\ UNCHANGED <<cpm, calls, alloc, sim>>

InitPipe ==
  /\ heap = ConfigHeap
  /\ pipe = PipeIdle
  /\ calls = 0
  /\ cpm = CpmEnter(<< >>, << >>)
  /\ alloc = AllocIdle
  /\ sim = SimIdle

NextPipe ==
  \/ CallBuildSchedule
  \/ CallApplyConstraints
  \/ BuildStep
  \/ ApplyStep
  \/ CpmCallStep
  \/ AssembleStep
  \/ Return

SpecPipe == InitPipe /\ [][NextPipe]_vars

(***************************************************************************)
(* confidence_score.  The penalties are multiples of 0.1 computed in       *)
(* binary floating point; the model keeps the score in exact tenths.  Off  *)
(* a tie the float's error cannot change round()'s result; on a tie        *)
(* (x.5 exactly) the accumulated error decides the side, so both           *)
(* neighbours are outcomes of the call.                                    *)
(***************************************************************************)
\* line 245-253, in tenths
ScoreTenths(yield, throughput, bug, delay_days) ==
  1000
    - (IF yield < 70 THEN (70 - yield) * 12 + 100 ELSE Max2(0, 85 - yield) * 4)
    - Max2(0, 100 - throughput) * 4
    - bug * 2
    - Max2(0, delay_days) * 5

\* int(score): the fraction dropped
Truncated(tenths) ==
  {IF tenths >= 0 THEN (tenths - (tenths % 10)) \div 10
   ELSE -(((-tenths) - ((-tenths) % 10)) \div 10)}

\* round(score) of a score given in tenths
RoundOutcomes(tenths) ==
  LET q == (tenths - (tenths % 10)) \div 10
      r == tenths % 10
  IN  IF r < 5 THEN {q} ELSE IF r > 5 THEN {q + 1} ELSE {q, q + 1}

\* line 254: max(0, min(100, ...))
Clamp(score) == Max2(0, Min2(100, score))

ConfidenceScore(yield, throughput, bug, delay_days) ==
  {Clamp(n) : n \in RoundOutcomes(ScoreTenths(yield, throughput, bug, delay_days))}

(***************************************************************************)
(* The script's run (line 277-327 and 373-380): the simulation loop, the   *)
(* log and the scores.                                                     *)
(***************************************************************************)
OnTrack ==
  <<"On track: No critical constraints detected; launch windows remain within baseline.">>

\* line 302-327
Logs(yield, throughput, bug, current) ==
  LET allocation_snapshot == ComputeAllocationDelays(yield)
      pushed(product) ==
        IF allocation_snapshot[product] > 0
        THEN << <<"Warning: M5 chip yield below 70%; launch pushed by days",
                  product, allocation_snapshot[product]>> >>
        ELSE << >>
      onYield ==
        IF yield < 70
        THEN pushed("iPad Pro") \o pushed("Vision Pro")
               \o << <<"Action: Prioritized MacBook Pro allocation to protect revenue.">> >>
        ELSE << >>
      na_delay == current["Vision Pro"].na_delay
      onThroughput ==
        IF throughput < 85
        THEN (IF na_delay > 0
              THEN << <<"Warning: Neural Accelerator throughput constraint adds days; Vision Pro launch pushed by days",
                        na_delay, current["Vision Pro"].delay_days>> >>
              ELSE << >>)
               \o << <<"Risk: Factory throughput below 85% is elongating final assembly.">> >>
        ELSE << >>
      onBugs ==
        IF bug > 90
        THEN << <<"Risk: Software stability degraded (open bugs); shift QA staffing to reduce launch exposure.",
                  bug>> >>
        ELSE << >>
      logs == onYield \o onThroughput \o onBugs
  IN  IF logs = << >> THEN <<OnTrack>> ELSE logs

\* stops of the three sliders
YieldStops == {40, 69, 70, baseline_yield, 100}

ThroughputStops == {60, 84, 85, baseline_throughput, 120}

BugStops == {0, baseline_bug_count, 45, 90, 91, 200}

\* a slider moves over its whole range while the other two rest at stops,
\* and from stop to stop otherwise
YieldMoves ==
  IF sim.throughput \in ThroughputStops /\ sim.bug_count \in BugStops
  THEN YieldRange ELSE YieldStops

ThroughputMoves ==
  IF sim.yield_percent \in YieldStops /\ sim.bug_count \in BugStops
  THEN ThroughputRange ELSE ThroughputStops

BugMoves ==
  IF sim.yield_percent \in YieldStops /\ sim.throughput \in ThroughputStops
  THEN BugRange ELSE BugStops

\* line 277-284: the script starts over with the sliders' values
ScriptStart(yield, throughput, bug) ==
  [ pc |-> "baseline", i |-> 1, yield_percent |-> yield,
    throughput |-> throughput, bug_count |-> bug, baseline_days |-> 0,
    baseline |-> << >>, current |-> << >>, logs |-> << >>, score |-> << >> ]

\* line 272: the slider is moved and the script reruns
MoveYield ==
  /\ sim.pc = "ready"
  /\ \E y \in YieldMoves \ {sim.yield_percent} :
       sim' = ScriptStart(y, sim.throughput, sim.bug_count)
  /\ UNCHANGED <<cpm, heap, pipe, calls, alloc>>

\* line 273
MoveThroughput ==
  /\ sim.pc = "ready"
  /\ \E t \in ThroughputMoves \ {sim.throughput} :
       sim' = ScriptStart(sim.yield_percent, t, sim.bug_count)
  /\ UNCHANGED <<cpm, heap, pipe, calls, alloc>>

\* line 274
MoveBugs ==
  /\ sim.pc = "ready"
  /\ \E b \in BugMoves \ {sim.bug_count} :
       sim' = ScriptStart(sim.yield_percent, sim.throughput, b)
  /\ UNCHANGED <<cpm, heap, pipe, calls, alloc>>

\* line 287-289: the baseline run of the product
BaselineRun ==
  /\ sim.pc = "baseline"
  /\ LET out == BuildSchedule(heap, Products[sim.i], baseline_yield,
                              baseline_throughput, baseline_bug_count)
     IN  /\ heap' = out.heap
         /\ sim' = [sim EXCEPT !.pc = "current",
                               !.baseline_days = out.value[1].ship_days]
  /\ UNCHANGED <<cpm, pipe, calls, alloc>>

\* line 290-300: the current run of the product
CurrentRun ==
  /\ sim.pc = "current"
  /\ LET product == Products[sim.i]
         out == BuildSchedule(heap, product, sim.yield_percent,
                              sim.throughput, sim.bug_count)
     IN  /\ heap' = out.heap
         /\ sim' = [sim EXCEPT
                      !.pc = IF sim.i = Len(Products) THEN "logs" ELSE "baseline",
                      !.i = sim.i + 1,
                      !.baseline = (product :> sim.baseline_days) @@ sim.baseline,
                      !.current =
                        (product :>
                           [schedule |-> out.value[1].schedule,
                            ship_days |-> out.value[1].ship_days,
                            delay_days |-> out.value[1].ship_days - sim.baseline_days,
                            na_delay |-> out.value[1].na_delay]) @@ sim.current]
  /\ UNCHANGED <<cpm, pipe, calls, alloc>>

\* line 302-327
WriteLogs ==
  /\ sim.pc = "logs"
  /\ sim' = [sim EXCEPT !.pc = "scores",
                        !.logs = Logs(sim.yield_percent, sim.throughput,
                                      sim.bug_count, sim.current)]
  /\ UNCHANGED <<cpm, heap, pipe, calls, alloc>>

\* line 373-380: the score of every product
WriteScores ==
  /\ sim.pc = "scores"
  /\ \E up \in SUBSET ProductSet :
       sim' = [sim EXCEPT
                 !.pc = "ready",
                 !.score =
                   [product \in ProductSet |->
                      LET outcomes == ConfidenceScore(sim.yield_percent,
                                        sim.throughput, sim.bug_count,
                                        sim.current[product].delay_days)
                      IN  IF product \in up THEN SetMax(outcomes)
                          ELSE SetMin(outcomes)]]
  /\ UNCHANGED <<cpm, heap, pipe, calls, alloc>>

\* the first run, with the sliders at their defaults
InitSim ==
  /\ cpm = CpmEnter(<< >>, << >>)
  /\ pipe = PipeIdle
  /\ calls = 0
  /\ alloc = AllocIdle
  /\ heap = ConfigHeap
  /\ sim = ScriptStart(85, 100, 45)

NextSim ==
  \/ MoveYield
  \/ MoveThroughput
  \/ MoveBugs
  \/ BaselineRun
  \/ CurrentRun
  \/ WriteLogs
  \/ WriteScores

Spec == InitSim /\ [][NextSim]_vars

(***************************************************************************)
(* compute_allocation_delays called for two yields.                        *)
(***************************************************************************)
AllocCall ==
  /\ Len(alloc.delays) < Len(alloc.yields)
  /\ alloc' = [alloc EXCEPT !.delays =
                 Append(@, ComputeAllocationDelays(alloc.yields[Len(@) + 1]))]
  /\ UNCHANGED <<cpm, heap, pipe, calls, sim>>

InitAlloc ==
  /\ cpm = CpmEnter(<< >>, << >>)
  /\ heap = ConfigHeap
  /\ pipe = PipeIdle
  /\ calls = 0
  /\ sim = SimIdle
  /\ \E y1, y2 \in YieldRange : alloc = [yields |-> <<y1, y2>>, delays |-> << >>]

NextAlloc == AllocCall

SpecAlloc == InitAlloc /\ [][NextAlloc]_vars

(***************************************************************************)
(* compute_cpm on generic task mappings.                                   *)
(***************************************************************************)
GenericHeap(S, deps) == [r \in {<<"arg", t>> : t \in S} |-> deps[r[2]]]

GenericTasks(S, dur) ==
  [t \in S |-> [duration |-> dur[t], deps |-> <<"arg", t>>, type |-> "component"]]

InitCpm ==
  /\ heap = ConfigHeap
  /\ pipe = PipeIdle
  /\ calls = 0
  /\ alloc = AllocIdle
  /\ sim = SimIdle
  /\ \E S \in SUBSET GenericNames :
       \E deps \in [S -> {D \in SUBSET S : Cardinality(D) <= MaxDeps}] :
         \E long \in {L \in SUBSET S : Cardinality(L) <= 1} :
           cpm = CpmEnter(GenericHeap(S, deps),
                          GenericTasks(S, [t \in S |-> IF t \in long THEN MaxDur ELSE 1]))

CpmStartStep ==
  cpm.pc = "start" /\ cpm' = CpmStart(cpm) /\ UNCHANGED <<heap, pipe, calls, alloc, sim>>

CpmWhileStep ==
  cpm.pc = "while" /\ cpm' = CpmWhile(cpm) /\ UNCHANGED <<heap, pipe, calls, alloc, sim>>

CpmForStep ==
  cpm.pc = "for" /\ cpm' = CpmFor(cpm) /\ UNCHANGED <<heap, pipe, calls, alloc, sim>>

CpmForwardStep ==
  cpm.pc = "forward" /\ cpm' = CpmForward(cpm) /\ UNCHANGED <<heap, pipe, calls, alloc, sim>>

NextCpm == CpmStartStep \/ CpmWhileStep \/ CpmForStep \/ CpmForwardStep

SpecCpm == InitCpm /\ [][NextCpm]_vars

\* the call runs to its end: nothing else is scheduled
SpecCpmFair == SpecCpm /\ WF_vars(NextCpm)

(***************************************************************************)
(* Claims about compute_cpm.                                               *)
(***************************************************************************)
DepsOf(c, t) == c.heap[c.tasks[t].deps]

\* a set of tasks each of which depends on one of the set: a cycle lies in it
Cyclic(c) ==
  \E X \in SUBSET DOMAIN c.tasks :
    X # {} /\ \A t \in X : DepsOf(c, t) \cap X # {}

RECURSIVE Level(_, _)
Level(c, t) ==
  IF DepsOf(c, t) = {} THEN 0
  ELSE 1 + SetMax({Level(c, d) : d \in DepsOf(c, t)})

\* C1: compute_cpm fails with the cycle error exactly when the dependency
\* relation has a cycle; a failed call returns no earliest-start or
\* earliest-finish value, a successful one returns both for every task.
C1_CycleIffError ==
  CpmEnded(cpm) =>
    /\ (cpm.error = "ValueError") <=> Cyclic(cpm)
    /\ cpm.pc = "raise" => cpm.result = << >>
    /\ ~Cyclic(cpm) =>
         /\ cpm.pc = "return"
         /\ Len(cpm.result) = 2
         /\ DOMAIN cpm.result[1] = DOMAIN cpm.tasks
         /\ DOMAIN cpm.result[2] = DOMAIN cpm.tasks

C1_Witness ==
  /\ cpm.pc = "raise"
  /\ cpm.error = "ValueError"
  /\ cpm.result = << >>
  /\ DOMAIN cpm.tasks = {"A", "B"}
  /\ DepsOf(cpm, "A") = {"B"}
  /\ DepsOf(cpm, "B") = {"A"}

\* C2: on return, each task's earliest start is the largest earliest finish
\* of its deps (0 without deps) and its earliest finish is start plus
\* duration; the forward pass never meets a dep whose finish is missing.
C2_ForwardPass ==
  /\ cpm.error # "KeyError"
  /\ cpm.pc = "return" =>
       \A t \in DOMAIN cpm.tasks :
         LET es == cpm.result[1][t]
             fins == {cpm.result[2][d] : d \in DepsOf(cpm, t)}
         IN  /\ \A f \in fins : f <= es
             /\ IF fins = {} THEN es = 0 ELSE es \in fins
             /\ cpm.result[2][t] = es + cpm.tasks[t].duration

C2_Witness ==
  /\ cpm.pc = "return"
  /\ \E t \in DOMAIN cpm.tasks :
       \E d, e \in DepsOf(cpm, t) :
         /\ cpm.result[2][d] < cpm.result[2][e]
         /\ cpm.result[1][t] = cpm.result[2][e]

C9_Order ==
  (cpm.pc \in {"forward", "return"} /\ ~Cyclic(cpm)) =>
    LET order == cpm.order
    IN  /\ Len(order) = Cardinality(DOMAIN cpm.tasks)
        /\ Range(order) = DOMAIN cpm.tasks
        /\ \A i, j \in 1..Len(order) :
             /\ order[j] \in DepsOf(cpm, order[i]) => j < i
             /\ (i < j /\ Level(cpm, order[i]) = Level(cpm, order[j]))
                  => Rank(order[i]) < Rank(order[j])

C9_Pending ==
  cpm.pc \in {"while", "for"} =>
    /\ Range(cpm.order) \cap DOMAIN cpm.remaining = {}
    /\ \A t \in DOMAIN cpm.remaining :
         cpm.heap[cpm.remaining[t]] \cap Range(cpm.order) = {}

C9_LoopExits == <>(cpm.pc \notin {"start", "while", "for"})

\* C9: the ready-set extraction loop ends; for an acyclic mapping the order
\* holds every task once, each after its deps, tasks of one extraction step
\* in ascending name order; a task placed in the order is in no remaining
\* task's pending set.
C9_Extraction == [](C9_Order /\ C9_Pending) /\ C9_LoopExits

C9_Witness ==
  /\ cpm.pc = "return"
  /\ DOMAIN cpm.tasks = GenericNames
  /\ \E s, t \in DOMAIN cpm.tasks :
       /\ s # t
       /\ Level(cpm, s) = 1
       /\ Level(cpm, t) = 1
       /\ \E u \in DOMAIN cpm.tasks : Level(cpm, u) = 2

(***************************************************************************)
(* Claims about the pipeline.                                              *)
(***************************************************************************)
\* the mapping as a value: every task with the contents of its deps list
Snapshot(h, tasks) ==
  [n \in DOMAIN tasks |->
     [duration |-> tasks[n].duration, deps |-> h[tasks[n].deps],
      type |-> tasks[n].type]]

\* r is the least integer with r * b >= a
IsCeil(r, a, b) == (r - 1) * b < a /\ a <= r * b

Scheduled ==
  /\ pipe.pc = "done"
  /\ pipe.op = "build_schedule"
  /\ pipe.product_name \in ProductSet

\* C3: for every configured product and constraint tuple, the finish of
\* "Ship" is >= 0 and is the largest earliest finish among the tasks that no
\* task lists as a dependency.
C3_ShipIsLast ==
  Scheduled =>
    LET r == pipe.value[1]
        sinks == {n \in DOMAIN pipe.tasks :
                    \A m \in DOMAIN pipe.tasks : n \notin heap[pipe.tasks[m].deps]}
    IN  /\ pipe.error = None
        /\ r.ship_days >= 0
        /\ r.ship_days = r.schedule["Ship"].end
        /\ "Ship" \in sinks
        /\ \A n \in sinks : r.schedule[n].end <= r.ship_days

C3_Witness ==
  /\ Scheduled
  /\ pipe.product_name = "Vision Pro"
  /\ pipe.yield = 40
  /\ pipe.bug = 200
  /\ pipe.value[1].ship_days = 102
  /\ pipe.value[1].schedule["Neural Accelerator"].end < 102

ExpectedAllocation(product_name, yield) ==
  IF yield >= 70 \/ product_name = "MacBook Pro" THEN 0
  ELSE LET base == CHOOSE r \in 0..28 : IsCeil(r, (70 - yield) * 28, 70)
       IN  IF product_name = "iPad Pro" THEN base ELSE base + 7

Applied ==
  /\ pipe.pc \in {"cpm", "assemble", "done"}
  /\ pipe.error = None
  /\ pipe.product_name \in ProductSet

\* C4: apply_constraints gives each task max(0, nominal duration adjusted by
\* the rules that apply to it): factory tasks ceil(duration * 100 /
\* max(1, throughput)), software tasks + ceil(bug_count / 12), "Neural
\* Accelerator" + ceil(max(0, 90 - throughput) / 10) * 2, "M5 Chip" + the
\* current product's allocation delay; deps and type are kept.
C4_AdjustedDurations ==
  Applied =>
    /\ DOMAIN pipe.tasks = DOMAIN pipe.base_tasks
    /\ \A n \in DOMAIN pipe.tasks :
         LET meta == pipe.base_tasks[n]
             bugs == IF meta.type = "software"
                     THEN CHOOSE r \in 0..17 : IsCeil(r, pipe.bug, 12) ELSE 0
             na == IF n = "Neural Accelerator"
                   THEN 2 * (CHOOSE r \in 0..3 :
                               IsCeil(r, Max2(0, 90 - pipe.throughput), 10))
                   ELSE 0
             allocation == IF n = "M5 Chip"
                      THEN ExpectedAllocation(pipe.product_name, pipe.yield) ELSE 0
             rest == pipe.tasks[n].duration - bugs - na - allocation
         IN  /\ pipe.tasks[n].duration >= 0
             /\ IF meta.type = "factory"
                THEN IsCeil(rest, meta.duration * 100, Max2(1, pipe.throughput))
                ELSE rest = meta.duration
             /\ pipe.tasks[n].type = meta.type
             /\ pipe.tasks[n].deps = meta.deps

C4_Witness ==
  /\ Applied
  /\ pipe.pc = "cpm"
  /\ pipe.product_name = "Vision Pro"
  /\ pipe.yield = 40
  /\ pipe.throughput = 60
  /\ pipe.bug = 200
  /\ pipe.tasks["M5 Chip"].duration = 49
  /\ pipe.tasks["Factory Build"].duration = 24
  /\ pipe.tasks["Neural Accelerator"].duration = 31
  /\ pipe.tasks["VisionOS Spatial UX"].duration = 43

\* C5: a call for a product that is not configured fails: it ends with an
\* error and returns no task graph, adjusted durations or schedule.
C5_UnknownProductFails ==
  (pipe.pc = "done" /\ pipe.product_name \notin ProductSet) =>
    (pipe.error # None /\ pipe.value = << >>)

C8_ConfigUnchanged == Globals(heap) = ConfigHeap

C8_SameAsFirstCall ==
  (pipe.pc = "done" /\ pipe.op = "build_schedule") =>
    LET first == BuildSchedule(ConfigHeap, pipe.product_name, pipe.yield,
                               pipe.throughput, pipe.bug)
    IN  pipe.error = first.error /\ pipe.value = first.value

C8_ArgumentsUnchanged ==
  /\ pipe.pc = "apply" =>
       Snapshot(heap', pipe.base_tasks) = Snapshot(heap, pipe.base_tasks)
  /\ pipe.pc = "cpm" =>
       Snapshot(heap', pipe.tasks) = Snapshot(heap, pipe.tasks)

\* C8: whatever calls were made before, the configuration's lists are as
\* configured, apply_constraints and compute_cpm leave the mapping they are
\* handed as it was, and a build_schedule call returns what it returns as the
\* first call made.
C8_NoSharedState ==
  [](C8_ConfigUnchanged /\ C8_SameAsFirstCall) /\ [][C8_ArgumentsUnchanged]_vars

C8_Witness ==
  /\ calls = 2
  /\ Scheduled
  /\ pipe.error = None
  /\ pipe.value[1].ship_days > 0

(***************************************************************************)
(* Claims about the script's run.                                          *)
(***************************************************************************)
RunComplete == sim.pc = "ready"

\* C7: for every product the score is an integer in 0..100: 100 minus the
\* yield, throughput, bug and delay penalties, rounded to a nearest integer
\* and clamped, the delay being the ship offset minus the baseline's.
C7_ConfidenceScore ==
  RunComplete =>
    \A product \in ProductSet :
      LET delay_days == sim.current[product].ship_days - sim.baseline[product]
          yieldPenalty == IF sim.yield_percent < 70
                          THEN (70 - sim.yield_percent) * 12 + 100
                          ELSE Max2(0, 85 - sim.yield_percent) * 4
          tenths == 1000 - yieldPenalty - Max2(0, 100 - sim.throughput) * 4
                      - sim.bug_count * 2 - Max2(0, delay_days) * 5
      IN  /\ sim.score[product] \in 0..100
          /\ sim.current[product].delay_days = delay_days
          /\ \E n \in -100..100 :
               /\ 10 * n - tenths <= 5
               /\ tenths - 10 * n <= 5
               /\ sim.score[product] = Max2(0, Min2(100, n))

C7_Witness ==
  /\ RunComplete
  /\ sim.yield_percent = 40
  /\ sim.throughput = 60
  /\ sim.bug_count = 200
  /\ sim.current["Vision Pro"].delay_days = 33
  /\ sim.score["Vision Pro"] = 0
  /\ sim.score["MacBook Pro"] = 0

NoBreach == sim.yield_percent >= 70 /\ sim.throughput >= 85 /\ sim.bug_count <= 90

\* C10: the log is the single "On track" entry exactly when no threshold is
\* breached, and when it is, every product's delay against its baseline is
\* <= 0.
C10_OnTrackWithinBaseline ==
  RunComplete =>
    /\ (sim.logs = <<OnTrack>>) <=> NoBreach
    /\ sim.logs = <<OnTrack>> =>
         \A product \in ProductSet : sim.current[product].delay_days <= 0

\* C6: of two yields y1 < y2 with y1 < 70, the lower gives iPad Pro and
\* Vision Pro a delay not smaller than the higher does; MacBook Pro's delay
\* is 0 for every yield.
C6_AllocationMonotone ==
  /\ \A k \in 1..Len(alloc.delays) : alloc.delays[k]["MacBook Pro"] = 0
  /\ (Len(alloc.delays) = 2 /\ alloc.yields[1] < alloc.yields[2]
        /\ alloc.yields[1] < 70) =>
       /\ alloc.delays[1]["iPad Pro"] >= alloc.delays[2]["iPad Pro"]
       /\ alloc.delays[1]["Vision Pro"] >= alloc.delays[2]["Vision Pro"]

C6_Witness ==
  /\ alloc.yields = <<40, 69>>
  /\ Len(alloc.delays) = 2
  /\ alloc.delays[1]["iPad Pro"] = 12
  /\ alloc.delays[1]["Vision Pro"] = 19
  /\ alloc.delays[2]["iPad Pro"] = 1
  /\ alloc.delays[2]["Vision Pro"] = 8

====
